---- MODULE Spec2Model ----
(***************************************************************************)
(* The AI response orchestration of the form-filling assistant             *)
(* (services/ai: getAIConfig, sarvam.chat, processMessage,                  *)
(* extractFormData) together with the AI configuration store, the Redis    *)
(* configuration cache and the Redis response cache it works on, and the   *)
(* creation of the AI configuration record (PATCH /ai-config, init-db).    *)
(*                                                                         *)
(* Numbers.  Confidences and confidenceThreshold are counted in tenths     *)
(* (0.8 is 8, 0.9 is 9, 1.0 is 10).  maxRetries is any number >= 0 in the  *)
(* configuration (z.number().min(0)), so it is counted in halves (1.5 is   *)
(* 3) and the integer loop counter `retries` is scaled by InHalves before  *)
(* it is compared with it.  Times and TTLs are seconds.                    *)
(***************************************************************************)
EXTENDS Integers, Sequences, FiniteSets, TLC

VARIABLES
    store,            \* the AIConfig collection: the record, or NoRecord
    configCache,      \* Redis key 'ai_config': [val, life]
    responseCache,    \* Redis keys 'chat:<id>:<base64>': key -> [val, life],
                      \* and by, the call arguments a live entry was written for
    envCacheEnabled,  \* process.env.ENABLE_RESPONSE_CACHE === 'true'
    pc,               \* position of the processMessage invocation
    conversationId,   \* its arguments
    message,
    config,           \* its local `config`
    sarvamResponse,   \* its local `sarvamResponse`
    retries,          \* its local `retries`
    enhancedResponse, \* its local `enhancedResponse`
    returned,         \* the value it returned
    thrown,           \* the step whose error it rethrew
    failFirst,        \* once escalation is due: the fallback provider fails
                      \* its first failFirst calls, answers the next one, and
                      \* then does either
    calls,            \* what the invocation has called so far
    lastReturn,       \* the last response computed by the models and returned
    first,            \* lastReturn as it was when the invocation started
    nCalls, nPatches, nTicks,
    op,               \* the exported function that is running
    configFrom,       \* where getAIConfig took the configuration it returned
    configAge,        \* seconds since the copy in the config cache was written
    reported,         \* choices[0].confidence of the primary provider's answer
    arrays,           \* the arrays of the invocation: caller (the argument
                      \* previousMessages / messages) and built (the list the
                      \* function builds for the fallback provider)
    given,            \* the caller's array as it was when the call was made
    requests,         \* the message lists sent to the fallback provider
    formData,         \* what extractFormData returned
    collection,       \* the documents of the AIConfig collection
    handlers,         \* the requests that may create an AIConfig document
    conversations,    \* the documents of the Conversation collection, in the
                      \* order they were created
    submissions,      \* the documents of the FormSubmission collection
    req,              \* the conversation requests being served: their
                      \* position and their local `conversation` document
    owner,            \* the request that awaits the running invocation
    nRequests

vars == <<store, configCache, responseCache, envCacheEnabled, pc,
          conversationId, message, config, sarvamResponse, retries,
          enhancedResponse, returned, thrown, failFirst, calls,
          lastReturn, first, nCalls, nPatches, nTicks,
          op, configFrom, configAge, reported, arrays, given, requests,
          formData, collection, handlers,
          conversations, submissions, req, owner, nRequests>>

routes == <<conversations, submissions, req, owner, nRequests>>

invocation == <<pc, conversationId, message, config, sarvamResponse, retries,
                enhancedResponse, returned, thrown, failFirst, calls,
                op, configFrom, reported, arrays, given, requests, formData>>

\* what no step of a running invocation changes
quiet == <<op, given, collection, handlers, routes>>
loaded == <<configFrom, configAge>>
built == <<arrays, requests>>

----------------------------------------------------------------------------
(* Bounds of the model *)

MaxCalls == 2          \* processMessage invocations in one run
MaxPatches == 1        \* admin PATCH /ai-config requests in one run
MaxTicks == 1          \* clock advances in one run
MaxFailFirst == 3      \* leading failures of the fallback provider
MaxRetriesHalves == 3  \* maxRetries values an admin sets: 0, 0.5, 1, 1.5
MaxAttempts == 4       \* fallback calls of one invocation (never reached)
MaxHistory == 2        \* turns in the history passed to an invocation
MaxCreations == 1      \* requests a creating handler serves in one run
MaxRequests == 3       \* conversation requests in one run
MaxInFlight == 2       \* conversation requests served at the same time
MaxConversations == 2  \* Conversation documents

----------------------------------------------------------------------------
(* Values *)

JsNull == "<null>"                 \* JavaScript null as a content value
ConversationIds == {"test", "c1"}
Messages == {"hi"}
\* messages of the key check: two well-formed ones and two that are a lone
\* surrogate each (JSON "\ud800" and "\udc01")
KeyMessages == {"hi", "hi!", "<D800>", "<DC01>"}
PrimaryTexts == {"Hello", "Namaste"}
FallbackTexts == {"Clarified answer", JsNull}
NoScore == -1                      \* choices[0].confidence absent
Scores == {NoScore, 0, 5, 8}      \* what the primary provider reports
Thresholds == {0, 8, 10}
RetryValues == 0..MaxRetriesHalves
CacheTTLs == {0, 60, 3600}
TickSteps == {60, 300}

InHalves(n) == 2 * n

\* conversation turns (IMessage) and the histories a caller passes
JsUndefined == "<undefined>"
Senders == {"user", "ai"}
Contents == {"My name is Asha"}
Turns == [sender : Senders, content : Contents]
Histories == UNION {[1..n -> Turns] : n \in 0..MaxHistory}
\* the argument previousMessages left out
Undefined == <<[sender |-> JsUndefined, content |-> JsUndefined]>>

\* what the fallback provider answers to the extraction request
\* (choices[0].message.content)
ExtractContents == {JsNull, "", "{}", "{\"name\":\"Asha\"}", "Sorry, I cannot"}
NoFormData == {<<JsUndefined, JsUndefined>>}
EmptyMapping == {}

\* the conversation requests: a free slot
Slots == 1..MaxInFlight
Idle == [kind |-> "idle", at |-> "end", conv |-> 0, messages |-> <<>>,
         status |-> "none", platform |-> "none", required |-> "none"]
Platforms == {"web", "whatsapp"}
\* scheme.conversationTemplate
SchemeTemplate == "hi!"
\* formFields[].name of the scheme's required field
FieldNames == {"name", "constructor"}

NoConfig == [confidenceThreshold |-> -1, maxRetries |-> -1,
             cacheEnabled |-> FALSE, cacheTTL |-> -1]
NoRecord == NoConfig
NoResponse == [content |-> "", confidence |-> -1]

\* scripts/init-db.ts and the mongoose schema defaults
SchemaDefaults == [confidenceThreshold |-> 8, maxRetries |-> InHalves(3),
                   cacheEnabled |-> TRUE, cacheTTL |-> 3600]

\* getAIConfig's synthesized configuration (environment unset but for
\* ENABLE_RESPONSE_CACHE)
EnvDefaults == [confidenceThreshold |-> 8, maxRetries |-> InHalves(3),
                cacheEnabled |-> envCacheEnabled, cacheTTL |-> 3600]

\* the requests that create the AIConfig document when they find none
PatchHandlers == {"patch1", "patch2"}
Handlers == PatchHandlers \cup {"initdb"}
Waiting == [pc |-> "idle", doc |-> NoConfig, id |-> 0, served |-> 0]

ConfigFields == {"confidenceThreshold", "maxRetries", "cacheEnabled", "cacheTTL"}

FieldValues(f) ==
    CASE f = "confidenceThreshold" -> Thresholds
      [] f = "maxRetries" -> RetryValues
      [] f = "cacheEnabled" -> BOOLEAN
      [] f = "cacheTTL" -> CacheTTLs

----------------------------------------------------------------------------
(* Redis and JSON *)

RedisNil == <<>>
Miss == [val |-> RedisNil, life |-> 0]

\* a truthiness test that never passes
NeverTruthy(s) == FALSE

\* if (cachedConfig) / if (cachedResponse): null and '' are falsy
Truthy(s) == s # RedisNil

JSONStringifyConfig(c) ==
    <<c.confidenceThreshold, c.maxRetries, c.cacheEnabled, c.cacheTTL>>
JSONParseConfig(s) ==
    [confidenceThreshold |-> s[1], maxRetries |-> s[2],
     cacheEnabled |-> s[3], cacheTTL |-> s[4]]
JSONStringifyResponse(r) == <<r.content, r.confidence>>
JSONParseResponse(s) == [content |-> s[1], confidence |-> s[2]]

\* the UTF-16 code units of the messages
CodeUnits(msg) ==
    CASE msg = "hi" -> <<104, 105>>
      [] msg = "hi!" -> <<104, 105, 33>>
      [] msg = "<D800>" -> <<55296>>
      [] msg = "<DC01>" -> <<56321>>

IsHighSurrogate(u) == u >= 55296 /\ u <= 56319
IsLowSurrogate(u) == u >= 56320 /\ u <= 57343

\* Buffer.from(message): the UTF-8 bytes; a surrogate without its partner is
\* encoded as U+FFFD
RECURSIVE Utf8(_)
Utf8(units) ==
    IF units = <<>> THEN <<>>
    ELSE LET u == Head(units)
         IN  IF u < 128 THEN <<u>> \o Utf8(Tail(units))
             ELSE IF u < 2048
             THEN <<192 + (u \div 64), 128 + (u % 64)>> \o Utf8(Tail(units))
             ELSE IF IsHighSurrogate(u) /\ Len(units) >= 2
                     /\ IsLowSurrogate(units[2])
             THEN LET cp == 65536 + (u - 55296) * 1024 + (units[2] - 56320)
                  IN  <<240 + (cp \div 262144), 128 + ((cp \div 4096) % 64),
                        128 + ((cp \div 64) % 64), 128 + (cp % 64)>>
                      \o Utf8(Tail(Tail(units)))
             ELSE IF IsHighSurrogate(u) \/ IsLowSurrogate(u)
             THEN <<239, 191, 189>> \o Utf8(Tail(units))
             ELSE <<224 + (u \div 4096), 128 + ((u \div 64) % 64),
                    128 + (u % 64)>> \o Utf8(Tail(units))

Base64Alphabet ==
    <<"A","B","C","D","E","F","G","H","I","J","K","L","M","N","O","P",
      "Q","R","S","T","U","V","W","X","Y","Z","a","b","c","d","e","f",
      "g","h","i","j","k","l","m","n","o","p","q","r","s","t","u","v",
      "w","x","y","z","0","1","2","3","4","5","6","7","8","9","+","/">>

\* .toString('base64')
RECURSIVE Base64(_)
Base64(bytes) ==
    IF bytes = <<>> THEN ""
    ELSE IF Len(bytes) = 1
    THEN Base64Alphabet[(bytes[1] \div 4) + 1]
         \o Base64Alphabet[(bytes[1] % 4) * 16 + 1] \o "=="
    ELSE IF Len(bytes) = 2
    THEN Base64Alphabet[(bytes[1] \div 4) + 1]
         \o Base64Alphabet[(bytes[1] % 4) * 16 + (bytes[2] \div 16) + 1]
         \o Base64Alphabet[(bytes[2] % 16) * 4 + 1] \o "="
    ELSE Base64Alphabet[(bytes[1] \div 4) + 1]
         \o Base64Alphabet[(bytes[1] % 4) * 16 + (bytes[2] \div 16) + 1]
         \o Base64Alphabet[(bytes[2] % 16) * 4 + (bytes[3] \div 64) + 1]
         \o Base64Alphabet[(bytes[3] % 64) + 1]
         \o Base64(SubSeq(bytes, 4, Len(bytes)))

\* a key made of the message alone
KeyWithoutConversation(id, msg) == "chat:" \o Base64(Utf8(CodeUnits(msg)))

\* `chat:${conversationId}:${Buffer.from(message).toString('base64')}`
CacheKey(id, msg) == "chat:" \o id \o ":" \o Base64(Utf8(CodeUnits(msg)))
\* conversation._id of the i-th Conversation document
ObjectId(i) == "c" \o ToString(i)
Keys == {CacheKey(id, msg) :
            id \in ConversationIds \cup {ObjectId(i) : i \in 1..MaxConversations},
            msg \in KeyMessages}
Key == CacheKey(conversationId, message)

\* GET: the value of a live key, nil otherwise
RedisGet(entry) == IF entry.life > 0 THEN entry.val ELSE RedisNil

\* SET key value EX ttl: Redis rejects an expire time of 0
\* ("ERR invalid expire time in 'set' command")
RedisSetRejects(ttl) == ttl <= 0

\* keys that never expire
NeverExpires(entry, d) == entry

\* d seconds pass
AgeEntry(entry, d) ==
    IF entry.life > d THEN [entry EXCEPT !.life = @ - d] ELSE Miss
AgeReturn(r, d) ==
    [r EXCEPT !.window = IF @ > d THEN @ - d ELSE 0]

----------------------------------------------------------------------------
(* The decisions of sarvam.chat and processMessage *)

DefaultConfidence == 9    \* choices[0].confidence || 0.9
EnhancedConfidence == 9   \* const enhancedConfidence = 0.9
ConfigCacheTTL == 300     \* redis.set(cacheKey, ..., 'EX', 300)

\* response.data.choices[0].confidence || 0.9: an absent score and a score of
\* 0 are both falsy
SarvamConfidence(score) ==
    IF score = NoScore \/ score = 0 THEN DefaultConfidence ELSE score

\* the response cache used whatever cacheEnabled says
AlwaysUsesResponseCache(cfg) == TRUE

\* if (config.cacheEnabled)
UsesResponseCache(cfg) == cfg.cacheEnabled

\* an escalation test that always passes
AlwaysEscalates(resp, cfg) == TRUE

\* if (sarvamResponse.confidence < config.confidenceThreshold)
NeedsEscalation(resp, cfg) == resp.confidence < cfg.confidenceThreshold

\* a loop test that always passes
LoopsForever(r, cfg) == TRUE

\* while (retries < config.maxRetries)
LoopContinues(r, cfg) == InHalves(r) < cfg.maxRetries

\* if (retries === config.maxRetries)
RetriesExhausted(r, cfg) == InHalves(r) = cfg.maxRetries

\* enhancedResponse || ''
OrEmpty(c) == IF c = JsNull \/ c = "" THEN "" ELSE c

\* the object written to the cache after a fallback success
EnhancedCached(c) == [content |-> c, confidence |-> EnhancedConfidence]
\* the object returned after a fallback success
EnhancedReturned(c) == [content |-> OrEmpty(c), confidence |-> EnhancedConfidence]

\* role: msg.sender === 'user' ? 'user' : 'assistant'
SenderOf(msg) == IF "sender" \in DOMAIN msg THEN msg.sender ELSE JsUndefined
\* a mapping that gives every turn the role user
RoleAlwaysUser(msg) == "user"
RoleOf(msg) == IF SenderOf(msg) = "user" THEN "user" ELSE "assistant"

\* previousMessages.map((msg) => ({role: ..., content: msg.content}))
MapRoles(h) ==
    [i \in 1..Len(h) |-> [role |-> RoleOf(h[i]), content |-> h[i].content]]

\* a map that works in place, on the array it is called on
MapInPlace == "caller"

\* Array.prototype.map and the array literal create a new array
MapTarget == "built"

\* messages.push({ role: 'user', content: message })
UserEntry(msg) == [role |-> "user", content |-> msg]

\* the arrays after `const messages = previousMessages ? previousMessages.map(...)
\* : []; messages.push(...)`, and the array `messages` refers to
MessagesRef(a) == IF a.caller = Undefined THEN "built" ELSE MapTarget
BuildMessages(a, msg) ==
    LET mapped == IF a.caller = Undefined THEN <<>> ELSE MapRoles(a.caller)
        made == [a EXCEPT ![MessagesRef(a)] = mapped]
    IN  [made EXCEPT ![MessagesRef(a)] = Append(@, UserEntry(msg))]

\* [{role: 'system', content: '...'}, ...messages.map(...)]
SystemEntry == [role |-> "system", content |-> "Extract structured form data"]
BuildExtraction(a) ==
    LET made == [a EXCEPT ![MapTarget] = MapRoles(a.caller)]
    IN  [made EXCEPT !.built = <<SystemEntry>> \o made[MapTarget]]

\* JSON.parse(content || '{}'): the mapping, for the contents that are JSON
OrEmptyObject(c) == IF c = JsNull \/ c = "" THEN "{}" ELSE c
IsJSON(c) == c \in {"{}", "{\"name\":\"Asha\"}"}
JSONParseForm(c) == IF c = "{}" THEN EmptyMapping ELSE {<<"name", "Asha">>}

NoCalls == [primary |-> 0, fallback |-> 0, fallbackOk |-> 0,
            configCacheReads |-> 0, configCacheWrites |-> 0,
            responseReads |-> 0, responseWrites |-> 0, responseWritten |-> 0,
            backoffs |-> 0]

NoReturn == [key |-> "", value |-> NoResponse, window |-> 0,
             config |-> NoConfig]

Terminal == pc \in {"done", "raised"}

----------------------------------------------------------------------------
(* Initial state: the store holds no record (first boot) or the record     *)
(* init-db created; both caches are empty; nothing has been called.        *)

Init ==
    /\ store \in {NoRecord, SchemaDefaults}
    /\ configCache = Miss
    /\ responseCache = [k \in Keys |-> Miss]
    /\ envCacheEnabled \in BOOLEAN
    /\ store = NoRecord \/ envCacheEnabled  \* read only when there is no record
    /\ pc = "idle"
    /\ conversationId = "test"
    /\ message = "hi"
    /\ config = NoConfig
    /\ sarvamResponse = NoResponse
    /\ retries = 0
    /\ enhancedResponse = ""
    /\ returned = NoResponse
    /\ thrown = "none"
    /\ failFirst = 0
    /\ calls = NoCalls
    /\ lastReturn = NoReturn
    /\ first = NoReturn
    /\ nCalls = 0
    /\ nPatches = 0
    /\ nTicks = 0
    /\ op = "processMessage"
    /\ configFrom = "none"
    /\ configAge = 0
    /\ reported = NoScore
    /\ arrays = [caller |-> Undefined, built |-> <<>>]
    /\ given = Undefined
    /\ requests = <<>>
    /\ formData = NoFormData
    /\ collection = IF store = NoRecord THEN <<>> ELSE <<store>>
    /\ handlers = [h \in Handlers |-> Waiting]
    /\ conversations = <<>>
    /\ submissions = <<>>
    /\ req = [s \in Slots |-> Idle]
    /\ owner = 0
    /\ nRequests = 0

----------------------------------------------------------------------------
(* How an invocation goes on and ends *)

Continue(next, last) ==
    /\ pc' = next
    /\ lastReturn' = last
    /\ UNCHANGED <<returned, thrown, formData>>

\* return <value> of a response the models produced
ReturnComputed(value) ==
    /\ pc' = "done"
    /\ returned' = value
    /\ lastReturn' = [key |-> Key, value |-> value,
                      window |-> config.cacheTTL, config |-> config]
    /\ UNCHANGED <<thrown, formData>>

\* a catch that rethrows in both functions
Rethrows(step) ==
    /\ pc' = "raised"
    /\ thrown' = step
    /\ UNCHANGED <<returned, lastReturn, formData>>

\* processMessage: } catch (error) { logger.error(...); throw error; }
\* extractFormData: } catch (error) { logger.error(...); return {}; }
Throw(step) ==
    IF op = "extractFormData"
    THEN /\ pc' = "done"
         /\ formData' = EmptyMapping
         /\ UNCHANGED <<returned, thrown, lastReturn>>
    ELSE /\ pc' = "raised"
         /\ thrown' = step
         /\ UNCHANGED <<returned, lastReturn, formData>>

\* } catch (error) { retries++; if (retries === config.maxRetries) { ...
\* return sarvamResponse; } await new Promise(... setTimeout ...); }
FallbackCatch ==
    /\ retries' = retries + 1
    /\ IF RetriesExhausted(retries + 1, config)
       THEN ReturnComputed(sarvamResponse)
       ELSE Continue("backoff", lastReturn)

\* the "Cache Sarvam response" block and `return sarvamResponse`, reached
\* when no escalation is needed, when the loop is not entered and when the
\* loop ends without a return
AfterEscalation(resp, last) ==
    IF UsesResponseCache(config)
    THEN Continue("primaryCache", last)
    ELSE ReturnComputed(resp)

----------------------------------------------------------------------------
(* processMessage(conversationId, message, language, previousMessages) *)

Begin(fn, id, msg, hist) ==
    /\ pc \in {"idle", "done", "raised"}
    /\ nCalls < MaxCalls
    /\ nCalls' = nCalls + 1
    /\ pc' = "getConfig"
    /\ op' = fn
    /\ conversationId' = id
    /\ message' = msg
    /\ arrays' = [caller |-> hist, built |-> <<>>]
    /\ given' = hist
    /\ requests' = <<>>
    /\ formData' = NoFormData
    /\ configFrom' = "none"
    /\ reported' = NoScore
    /\ config' = NoConfig
    /\ sarvamResponse' = NoResponse
    /\ retries' = 0
    /\ enhancedResponse' = ""
    /\ returned' = NoResponse
    /\ thrown' = "none"
    /\ failFirst' = 0
    /\ calls' = NoCalls
    /\ first' = lastReturn
    /\ UNCHANGED <<store, configCache, responseCache, envCacheEnabled,
                   lastReturn, nPatches, nTicks, configAge, collection,
                   handlers>>

\* a call without previousMessages (POST /ai-config/test)
Start(id, msg) ==
    Begin("processMessage", id, msg, Undefined) /\ UNCHANGED routes

\* a call with the conversation's messages (the conversation routes)
StartWithHistory(id, msg, hist) ==
    Begin("processMessage", id, msg, hist) /\ UNCHANGED routes

\* const config = await getAIConfig();
Loaded(c) ==
    /\ config' = c
    /\ Continue(IF op = "extractFormData" THEN "extract"
                ELSE IF UsesResponseCache(c) THEN "cacheCheck" ELSE "primary",
                lastReturn)

\* a getAIConfig that answers with the defaults when the store is unreachable
StoreReadFailsOpen ==
    /\ Loaded(EnvDefaults)
    /\ configFrom' = "defaults"
    /\ UNCHANGED <<configCache, configAge>>

\* AIConfig.findOne() rejects: } catch (error) { logger.error(...); throw error; }
StoreReadFails ==
    /\ Throw("store")
    /\ UNCHANGED <<config, configCache, loaded>>

GetAIConfig ==
    /\ pc = "getConfig"
    /\ UNCHANGED <<store, responseCache, envCacheEnabled, conversationId,
                   message, sarvamResponse, retries, enhancedResponse,
                   failFirst, first, nCalls, nPatches, nTicks, quiet,
                   reported, built>>
    /\ \/ \* redis.get(cacheKey) fails
          /\ calls' = [calls EXCEPT !.configCacheReads = @ + 1]
          /\ Throw("configCacheRead")
          /\ UNCHANGED <<config, configCache, loaded>>
       \/ \* if (cachedConfig) return JSON.parse(cachedConfig)
          /\ Truthy(RedisGet(configCache))
          /\ calls' = [calls EXCEPT !.configCacheReads = @ + 1]
          /\ Loaded(JSONParseConfig(RedisGet(configCache)))
          /\ configFrom' = "cache"
          /\ UNCHANGED <<configCache, configAge>>
       \/ \* AIConfig.findOne() fails
          /\ ~Truthy(RedisGet(configCache))
          /\ calls' = [calls EXCEPT !.configCacheReads = @ + 1]
          /\ StoreReadFails
       \/ \* if (!config) return { ...defaults }
          /\ ~Truthy(RedisGet(configCache))
          /\ store = NoRecord
          /\ calls' = [calls EXCEPT !.configCacheReads = @ + 1]
          /\ Loaded(EnvDefaults)
          /\ configFrom' = "defaults"
          /\ UNCHANGED <<configCache, configAge>>
       \/ \* redis.set(cacheKey, JSON.stringify(config), 'EX', 300); return config
          /\ ~Truthy(RedisGet(configCache))
          /\ store # NoRecord
          /\ calls' = [calls EXCEPT !.configCacheReads = @ + 1,
                                    !.configCacheWrites = @ + 1]
          /\ configCache' = [val |-> JSONStringifyConfig(store),
                             life |-> ConfigCacheTTL]
          /\ configAge' = 0
          /\ Loaded(store)
          /\ configFrom' = "store"
       \/ \* redis.set(cacheKey, ...) fails
          /\ ~Truthy(RedisGet(configCache))
          /\ store # NoRecord
          /\ calls' = [calls EXCEPT !.configCacheReads = @ + 1,
                                    !.configCacheWrites = @ + 1]
          /\ Throw("configCacheWrite")
          /\ UNCHANGED <<config, configCache, loaded>>

\* if (config.cacheEnabled) { const cachedResponse = await redis.get(cacheKey);
\* if (cachedResponse) return JSON.parse(cachedResponse); }
CacheCheck ==
    /\ pc = "cacheCheck"
    /\ calls' = [calls EXCEPT !.responseReads = @ + 1]
    /\ UNCHANGED <<store, configCache, responseCache, envCacheEnabled,
                   conversationId, message, config, sarvamResponse, retries,
                   enhancedResponse, failFirst, first, nCalls,
                   nPatches, nTicks, quiet, loaded, reported, built>>
    /\ \/ \* redis.get(cacheKey) fails
          Throw("responseRead")
       \/ /\ Truthy(RedisGet(responseCache[Key]))
          /\ pc' = "done"
          /\ returned' = JSONParseResponse(RedisGet(responseCache[Key]))
          /\ UNCHANGED <<thrown, lastReturn, formData>>
       \/ /\ ~Truthy(RedisGet(responseCache[Key]))
          /\ Continue("primary", lastReturn)

\* const sarvamResponse = await sarvam.chat(message, language, {...});
\* if (sarvamResponse.confidence < config.confidenceThreshold) { let retries = 0;
\* while (retries < config.maxRetries) {
PrimaryCall ==
    /\ pc = "primary"
    /\ calls' = [calls EXCEPT !.primary = @ + 1]
    /\ UNCHANGED <<store, configCache, responseCache, envCacheEnabled,
                   conversationId, message, config, retries,
                   enhancedResponse, first, nCalls, nPatches, nTicks,
                   quiet, loaded, built>>
    /\ \/ \* sarvamClient.post fails: logged and rethrown
          /\ Throw("primary")
          /\ UNCHANGED <<sarvamResponse, failFirst, reported>>
       \/ \E text \in PrimaryTexts, score \in Scores :
            LET resp == [content |-> text,
                         confidence |-> SarvamConfidence(score)]
            IN  /\ sarvamResponse' = resp
                /\ reported' = score
                /\ IF NeedsEscalation(resp, config)
                   THEN failFirst' \in 0..MaxFailFirst
                   ELSE UNCHANGED failFirst
                /\ IF NeedsEscalation(resp, config) /\ LoopContinues(0, config)
                   THEN Continue("fallback", lastReturn)
                   ELSE AfterEscalation(resp, lastReturn)

\* const messages = previousMessages ? previousMessages.map(...) : [];
\* messages.push({ role: 'user', content: message });
\* const openaiResponse = await openai.chat.completions.create({..., messages});
\* const enhancedResponse = openaiResponse.choices[0].message.content;
FallbackCall ==
    /\ pc = "fallback"
    /\ calls.fallback < MaxAttempts
    /\ arrays' = BuildMessages(arrays, message)
    /\ requests' = Append(requests, arrays'[MessagesRef(arrays)])
    /\ UNCHANGED <<store, configCache, responseCache, envCacheEnabled,
                   conversationId, message, config, sarvamResponse,
                   failFirst, first, nCalls, nPatches, nTicks, quiet, loaded,
                   reported>>
    /\ \/ \* the call fails
          /\ calls.fallback + 1 # failFirst + 1
          /\ calls' = [calls EXCEPT !.fallback = @ + 1]
          /\ FallbackCatch
          /\ UNCHANGED enhancedResponse
       \/ \* the call answers
          /\ calls.fallback + 1 > failFirst
          /\ calls' = [calls EXCEPT !.fallback = @ + 1, !.fallbackOk = @ + 1]
          /\ UNCHANGED retries
          /\ \E text \in FallbackTexts :
                /\ enhancedResponse' = text
                /\ IF UsesResponseCache(config)
                   THEN Continue("fallbackCache", lastReturn)
                   ELSE ReturnComputed(EnhancedReturned(text))

\* a block that goes on to the "Cache Sarvam response" block after its write
FallsThroughAfterWrite == Continue("primaryCache", lastReturn)

\* return { content: enhancedResponse || '', confidence: enhancedConfidence };
ReturnEnhanced == ReturnComputed(EnhancedReturned(enhancedResponse))

\* await redis.set(cacheKey, JSON.stringify({content: enhancedResponse,
\* confidence: enhancedConfidence}), 'EX', config.cacheTTL); return {...}
\* inside the try of the retry loop
FallbackCacheWrite ==
    /\ pc = "fallbackCache"
    /\ UNCHANGED <<store, configCache, envCacheEnabled, conversationId,
                   message, config, sarvamResponse, enhancedResponse,
                   failFirst, first, nCalls, nPatches, nTicks, quiet, loaded,
                   reported, built>>
    /\ \/ \* redis.set fails: caught by the loop's catch
          /\ calls' = [calls EXCEPT !.responseWrites = @ + 1]
          /\ FallbackCatch
          /\ UNCHANGED responseCache
       \/ /\ ~RedisSetRejects(config.cacheTTL)
          /\ calls' = [calls EXCEPT !.responseWrites = @ + 1,
                                    !.responseWritten = @ + 1]
          /\ responseCache' =
               [responseCache EXCEPT ![Key] =
                  [val |-> JSONStringifyResponse(EnhancedCached(enhancedResponse)),
                   life |-> config.cacheTTL,
                   by |-> <<conversationId, message>>]]
          /\ ReturnEnhanced
          /\ UNCHANGED retries

\* await new Promise((resolve) => setTimeout(resolve, 1000)); then the loop
\* test again
Backoff ==
    /\ pc = "backoff"
    /\ calls' = [calls EXCEPT !.backoffs = @ + 1]
    /\ IF LoopContinues(retries, config)
       THEN Continue("fallback", lastReturn)
       ELSE AfterEscalation(sarvamResponse, lastReturn)
    /\ UNCHANGED <<store, configCache, responseCache, envCacheEnabled,
                   conversationId, message, config, sarvamResponse, retries,
                   enhancedResponse, failFirst, first, nCalls, nPatches,
                   nTicks, quiet, loaded, reported, built>>

\* if (config.cacheEnabled) { await redis.set(cacheKey,
\* JSON.stringify(sarvamResponse), 'EX', config.cacheTTL); } return sarvamResponse;
PrimaryCacheWrite ==
    /\ pc = "primaryCache"
    /\ UNCHANGED <<store, configCache, envCacheEnabled, conversationId,
                   message, config, sarvamResponse, retries,
                   enhancedResponse, failFirst, first, nCalls,
                   nPatches, nTicks, quiet, loaded, reported, built>>
    /\ \/ \* redis.set fails: rethrown by the outer catch
          /\ calls' = [calls EXCEPT !.responseWrites = @ + 1]
          /\ Throw("responseWrite")
          /\ UNCHANGED responseCache
       \/ /\ ~RedisSetRejects(config.cacheTTL)
          /\ calls' = [calls EXCEPT !.responseWrites = @ + 1,
                                    !.responseWritten = @ + 1]
          /\ responseCache' =
               [responseCache EXCEPT ![Key] =
                  [val |-> JSONStringifyResponse(sarvamResponse),
                   life |-> config.cacheTTL,
                   by |-> <<conversationId, message>>]]
          /\ ReturnComputed(sarvamResponse)

----------------------------------------------------------------------------
(* extractFormData(messages) *)

StartExtract(hist) ==
    Begin("extractFormData", conversationId, message, hist) /\ UNCHANGED routes

\* const response = await openai.chat.completions.create({..., messages: [...]});
\* const formData = JSON.parse(response.choices[0].message.content || '{}');
\* return formData;
ExtractCall ==
    /\ pc = "extract"
    /\ UNCHANGED <<store, configCache, responseCache, envCacheEnabled,
                   conversationId, message, config, sarvamResponse, retries,
                   failFirst, first, nCalls, nPatches, nTicks, quiet, loaded,
                   reported>>
    /\ \/ \* messages.map is not a function: caught
          /\ arrays.caller = Undefined
          /\ Throw("map")
          /\ UNCHANGED <<calls, built, enhancedResponse>>
       \/ /\ arrays.caller # Undefined
          /\ arrays' = BuildExtraction(arrays)
          /\ requests' = Append(requests, arrays'.built)
          /\ \/ \* the call fails: caught
                /\ calls' = [calls EXCEPT !.fallback = @ + 1]
                /\ Throw("fallback")
                /\ UNCHANGED enhancedResponse
             \/ \E c \in ExtractContents :
                   /\ calls' = [calls EXCEPT !.fallback = @ + 1,
                                             !.fallbackOk = @ + 1]
                   /\ enhancedResponse' = c
                   /\ IF IsJSON(OrEmptyObject(c))
                      THEN /\ pc' = "done"
                           /\ formData' = JSONParseForm(OrEmptyObject(c))
                           /\ UNCHANGED <<returned, thrown, lastReturn>>
                      ELSE Throw("parse")

----------------------------------------------------------------------------
(* The creation of the AIConfig document: PATCH /ai-config and init-db,    *)
(* step by step (each await is a round trip to the database)               *)

service == <<configCache, responseCache, envCacheEnabled, invocation,
             lastReturn, first, nCalls, nPatches, nTicks, configAge, routes>>

Accepts(h) ==
    /\ handlers[h].pc \in {"idle", "created", "updated", "failed", "skipped"}
    /\ handlers[h].served < MaxCreations

\* let config = await AIConfig.findOne().sort({ updatedAt: -1 });
\* if (!config) { config = await AIConfig.create({...data}) }
\* else { Object.assign(config, data); await config.save() }
PatchFind(h, f, v) ==
    /\ Accepts(h)
    /\ handlers' =
         [handlers EXCEPT ![h] =
            IF collection = <<>>
            THEN [pc |-> "create", doc |-> [SchemaDefaults EXCEPT ![f] = v],
                  id |-> 0, served |-> @.served + 1]
            ELSE [pc |-> "update",
                  doc |-> [collection[Len(collection)] EXCEPT ![f] = v],
                  id |-> Len(collection), served |-> @.served + 1]]
    /\ UNCHANGED <<store, collection, service>>

\* const configExists = await AIConfig.findOne();
\* if (!configExists) { ... await AIConfig.create({...}) }
InitDbFind ==
    /\ Accepts("initdb")
    /\ handlers' =
         [handlers EXCEPT !["initdb"] =
            IF collection = <<>>
            THEN [pc |-> "create", doc |-> SchemaDefaults, id |-> 0,
                  served |-> @.served + 1]
            ELSE [@ EXCEPT !.pc = "skipped", !.served = @ + 1]]
    /\ UNCHANGED <<store, collection, service>>

\* pre('save'): const count = await mongoose.model('AIConfig').countDocuments();
CountDocuments(h) == Len(collection)

\* if (count > 0 && this.isNew) throw new Error('Only one ...'); next();
PreSave(h) ==
    /\ handlers[h].pc \in {"create", "update"}
    /\ handlers' =
         [handlers EXCEPT ![h].pc =
            IF CountDocuments(h) > 0 /\ handlers[h].pc = "create"
            THEN "failed"
            ELSE IF handlers[h].pc = "create" THEN "insert" ELSE "write"]
    /\ UNCHANGED <<store, collection, service>>

\* the insert of the new document
Insert(h) ==
    /\ handlers[h].pc = "insert"
    /\ collection' = Append(collection, handlers[h].doc)
    /\ store' = handlers[h].doc
    /\ handlers' = [handlers EXCEPT ![h].pc = "created"]
    /\ UNCHANGED service

\* the update of the document that was found
Write(h) ==
    /\ handlers[h].pc = "write"
    /\ collection' = [collection EXCEPT ![handlers[h].id] = handlers[h].doc]
    /\ store' = handlers[h].doc
    /\ handlers' = [handlers EXCEPT ![h].pc = "updated"]
    /\ UNCHANGED service

----------------------------------------------------------------------------
(* The environment *)

\* processMessage reads the store only in getAIConfig, and the clock only
\* through the expiry of the keys it reads there and at the cache check.  A
\* PATCH or a clock advance that lands anywhere else (later in an invocation,
\* or between two invocations) leaves the same state as one that lands just
\* before the next of these reads, so the environment moves at these
\* positions only.
StoreObserved == pc = "getConfig"
ClockObserved == pc \in {"getConfig", "cacheCheck"}

\* PATCH /ai-config with one field: creates the record when there is none,
\* else Object.assign(config, data); config.save()
AdminPatch(f, v) ==
    /\ StoreObserved
    /\ nPatches < MaxPatches
    /\ nPatches' = nPatches + 1
    /\ store' = IF store = NoRecord
                THEN [SchemaDefaults EXCEPT ![f] = v]
                ELSE [store EXCEPT ![f] = v]
    /\ collection' = <<store'>>
    /\ UNCHANGED <<configCache, responseCache, envCacheEnabled, invocation,
                   lastReturn, first, nCalls, nTicks, configAge, handlers,
                   routes>>

\* d seconds pass: Redis expires the keys whose EX time is over
Tick(d) ==
    /\ ClockObserved
    /\ nTicks < MaxTicks
    /\ nTicks' = nTicks + 1
    /\ configCache' = AgeEntry(configCache, d)
    /\ responseCache' = [k \in Keys |-> AgeEntry(responseCache[k], d)]
    /\ lastReturn' = AgeReturn(lastReturn, d)
    /\ first' = AgeReturn(first, d)
    /\ configAge' = IF configCache' = Miss THEN 0 ELSE configAge + d
    /\ UNCHANGED <<store, envCacheEnabled, invocation, nCalls, nPatches,
                   collection, handlers, routes>>

Next ==
    \/ \E id \in ConversationIds, msg \in Messages : Start(id, msg)
    \/ GetAIConfig
    \/ CacheCheck
    \/ PrimaryCall
    \/ FallbackCall
    \/ FallbackCacheWrite
    \/ Backoff
    \/ PrimaryCacheWrite
    \/ \E f \in ConfigFields : \E v \in FieldValues(f) : AdminPatch(f, v)
    \/ \E d \in TickSteps : Tick(d)

Spec == Init /\ [][Next]_vars

\* a step of the running invocation
Step ==
    \/ GetAIConfig
    \/ CacheCheck
    \/ PrimaryCall
    \/ FallbackCall
    \/ FallbackCacheWrite
    \/ Backoff
    \/ PrimaryCacheWrite

\* every awaited call of a running invocation returns or fails: the
\* invocation's next step is eventually taken
SpecFair == Init /\ [][Next]_vars /\ WF_vars(Step)

\* processMessage called for several conversations and messages
StartKeyed(id, msg) ==
    Begin("processMessage", id, msg, Undefined) /\ UNCHANGED routes

NextKeys ==
    \/ \E id \in ConversationIds, msg \in KeyMessages : StartKeyed(id, msg)
    \/ GetAIConfig
    \/ CacheCheck
    \/ PrimaryCall
    \/ FallbackCall
    \/ FallbackCacheWrite
    \/ Backoff
    \/ PrimaryCacheWrite

SpecKeys == Init /\ [][NextKeys]_vars

\* processMessage and extractFormData called with a conversation's messages
NextTurns ==
    \/ \E id \in ConversationIds, msg \in Messages :
          \E hist \in Histories \cup {Undefined} :
             StartWithHistory(id, msg, hist)
    \/ \E hist \in Histories \cup {Undefined} : StartExtract(hist)
    \/ GetAIConfig
    \/ CacheCheck
    \/ PrimaryCall
    \/ FallbackCall
    \/ FallbackCacheWrite
    \/ Backoff
    \/ PrimaryCacheWrite
    \/ ExtractCall

SpecTurns == Init /\ [][NextTurns]_vars

\* the handlers that create the AIConfig document, running concurrently on an
\* empty collection
InitSingleton == Init /\ store = NoRecord /\ ~envCacheEnabled

NextSingleton ==
    \/ \E h \in PatchHandlers, f \in ConfigFields :
          \E v \in FieldValues(f) : PatchFind(h, f, v)
    \/ InitDbFind
    \/ \E h \in Handlers : PreSave(h)
    \/ \E h \in Handlers : Insert(h)
    \/ \E h \in Handlers : Write(h)

SpecSingleton == InitSingleton /\ [][NextSingleton]_vars

----------------------------------------------------------------------------
(* The conversation routes (POST /start, POST /:conversationId/message,    *)
(* PATCH /:conversationId/abandon, POST /:conversationId/submit) and the   *)
(* WhatsApp handler, for one user and one scheme.  Each request goes from  *)
(* one await to the next; a read or a write of the database is one step.   *)
(* A request holds the document it found as its local `conversation`; save *)
(* sends what the request changed on it ($push of the turns it pushed,     *)
(* $set of the paths it assigned), after validating it.                    *)

backend == <<store, configCache, responseCache, envCacheEnabled, invocation,
             lastReturn, first, nCalls, nPatches, nTicks, configAge,
             collection, handlers>>

\* conversation.messages.push({content, sender, language, confidence, ...})
UserTurn(msg) == [sender |-> "user", content |-> msg, confidence |-> NoScore]
AiTurn(resp) ==
    [sender |-> "ai", content |-> resp.content, confidence |-> resp.confidence]

\* content: { type: String, required: [true, ...] }: null, undefined and the
\* empty string fail validation, and save rejects
Valid(turn) == turn.content \notin {JsNull, JsUndefined, ""}

\* formData[field.name]: an own property, else what Object.prototype has
\* under the name, else undefined
ObjectPrototype ==
    {"constructor", "toString", "valueOf", "hasOwnProperty", "__proto__"}
Get(fd, name) ==
    IF \E p \in fd : p[1] = name
    THEN (CHOOSE p \in fd : p[1] = name)[2]
    ELSE IF name \in ObjectPrototype THEN "<function>" ELSE JsUndefined
\* field.required && !formData[field.name]
Missing(fd, name) == Get(fd, name) \in {JsUndefined, JsNull, ""}

Active == {i \in DOMAIN conversations : conversations[i].status = "active"}
Min(S) == CHOOSE i \in S : \A j \in S : i <= j

\* the response is sent, or the error goes to the error handler
Ends(s) == req' = [req EXCEPT ![s] = Idle]

\* a request arrives; k is its route, c the conversation of its path and p
\* the platform of its body
Receive(s, k, c, p) ==
    /\ req[s] = Idle
    /\ \A t \in Slots : t < s => req[t] # Idle
    /\ nRequests < MaxRequests
    /\ nRequests' = nRequests + 1
    /\ req' = [req EXCEPT ![s] = [Idle EXCEPT !.kind = k, !.at = "find",
                                              !.conv = c, !.platform = p]]
    /\ UNCHANGED <<conversations, submissions, owner, backend>>

\* POST /start: Scheme.findOne, then Conversation.findOne({userId, schemeId,
\* status: 'active'}); if (existingConversation) return res.json(...)
StartFind(s) ==
    /\ req[s].kind = "start" /\ req[s].at = "find"
    /\ IF Active # {}
       THEN Ends(s)
       ELSE req' = [req EXCEPT ![s].at = "create"]
    /\ UNCHANGED <<conversations, submissions, owner, nRequests, backend>>

\* await Conversation.create({..., messages: [], status: 'active'})
StartCreate(s) ==
    /\ req[s].kind = "start" /\ req[s].at = "create"
    /\ Len(conversations) < MaxConversations
    /\ conversations' =
          Append(conversations,
                 [status |-> "active", platform |-> req[s].platform,
                  messages |-> <<>>, completedAt |-> FALSE])
    /\ req' = [req EXCEPT ![s].at = "call",
                          ![s].conv = Len(conversations) + 1,
                          ![s].status = "active"]
    /\ UNCHANGED <<submissions, owner, nRequests, backend>>

\* await processMessage(conversation._id, scheme.conversationTemplate, ...)
StartCall(s) ==
    /\ req[s].kind = "start" /\ req[s].at = "call"
    /\ owner = 0
    /\ Begin("processMessage", ObjectId(req[s].conv), SchemeTemplate, Undefined)
    /\ owner' = s
    /\ req' = [req EXCEPT ![s].at = "wait"]
    /\ UNCHANGED <<conversations, submissions, nRequests>>

\* conversation.messages.push({... sender: 'ai' ...}); await
\* conversation.save(): the turn the request pushed is appended to the
\* stored document if it is valid; when processMessage raised, so does the
\* request
PushAi(s) ==
    /\ req[s].at = "wait"
    /\ owner = s
    /\ Terminal
    /\ owner' = 0
    /\ Ends(s)
    /\ IF pc = "done" /\ Valid(AiTurn(returned))
       THEN conversations' =
               [conversations EXCEPT ![req[s].conv].messages =
                                        Append(@, AiTurn(returned))]
       ELSE UNCHANGED conversations
    /\ UNCHANGED <<submissions, nRequests, backend>>

StartResume(s) == req[s].kind = "start" /\ PushAi(s)

\* POST /:conversationId/message: Conversation.findOne({_id, userId, status:
\* 'active'}); handleWhatsAppMessage: Conversation.findOne({userId, platform:
\* 'whatsapp', status: 'active'}).  Then conversation.messages.push({...
\* sender: 'user' ...}) on the document found.
Found(s) ==
    IF req[s].kind = "message"
    THEN IF req[s].conv \in Active THEN req[s].conv ELSE 0
    ELSE LET S == {i \in Active : conversations[i].platform = "whatsapp"}
         IN  IF S = {} THEN 0 ELSE Min(S)

MessageFind(s, msg) ==
    /\ req[s].kind \in {"message", "whatsapp"} /\ req[s].at = "find"
    /\ IF Found(s) = 0
       THEN Ends(s)
       ELSE req' = [req EXCEPT ![s].at = "save",
                               ![s].conv = Found(s),
                               ![s].status = "active",
                               ![s].messages =
                                   Append(conversations[Found(s)].messages,
                                          UserTurn(msg))]
    /\ UNCHANGED <<conversations, submissions, owner, nRequests, backend>>

\* await conversation.save(), with the user's turn
MessageSaveUser(s) ==
    /\ req[s].kind \in {"message", "whatsapp"} /\ req[s].at = "save"
    /\ conversations' =
          [conversations EXCEPT ![req[s].conv].messages =
              Append(@, req[s].messages[Len(req[s].messages)])]
    /\ req' = [req EXCEPT ![s].at = "call"]
    /\ UNCHANGED <<submissions, owner, nRequests, backend>>

\* await processMessage(conversationId, message, ..., conversation.messages)
MessageCall(s) ==
    /\ req[s].kind \in {"message", "whatsapp"} /\ req[s].at = "call"
    /\ owner = 0
    /\ Begin("processMessage", ObjectId(req[s].conv),
             req[s].messages[Len(req[s].messages)].content, req[s].messages)
    /\ owner' = s
    /\ req' = [req EXCEPT ![s].at = "wait"]
    /\ UNCHANGED <<conversations, submissions, nRequests>>

MessageResume(s) == req[s].kind \in {"message", "whatsapp"} /\ PushAi(s)

\* PATCH /:conversationId/abandon: Conversation.findOne({_id, userId, status:
\* 'active'}); if (!conversation) throw
AbandonFind(s) ==
    /\ req[s].kind = "abandon" /\ req[s].at = "find"
    /\ IF req[s].conv \in Active
       THEN req' = [req EXCEPT ![s].at = "save", ![s].status = "active"]
       ELSE Ends(s)
    /\ UNCHANGED <<conversations, submissions, owner, nRequests, backend>>

\* conversation.status = 'abandoned'; await conversation.save()
AbandonSave(s) ==
    /\ req[s].kind = "abandon" /\ req[s].at = "save"
    /\ conversations' = [conversations EXCEPT ![req[s].conv].status = "abandoned"]
    /\ Ends(s)
    /\ UNCHANGED <<submissions, owner, nRequests, backend>>

\* POST /:conversationId/submit: Conversation.findOne({_id, userId}), then
\* Scheme.findById(conversation.schemeId); f is the name of the required field
\* the scheme has
SubmitFind(s, f) ==
    /\ req[s].kind = "submit" /\ req[s].at = "find"
    /\ req' = [req EXCEPT ![s].at = "call",
                          ![s].status = conversations[req[s].conv].status,
                          ![s].messages = conversations[req[s].conv].messages,
                          ![s].required = f]
    /\ UNCHANGED <<conversations, submissions, owner, nRequests, backend>>

\* await extractFormData(conversation.messages)
SubmitCall(s) ==
    /\ req[s].kind = "submit" /\ req[s].at = "call"
    /\ owner = 0
    /\ Begin("extractFormData", conversationId, message, req[s].messages)
    /\ owner' = s
    /\ req' = [req EXCEPT ![s].at = "wait"]
    /\ UNCHANGED <<conversations, submissions, nRequests>>

\* missingFields = scheme.formFields.filter((field) => field.required &&
\* !formData[field.name]); if (missingFields.length > 0) throw; await
\* FormSubmission.create({... conversationId, formData ...})
SubmitCreate(s) ==
    /\ req[s].kind = "submit" /\ req[s].at = "wait"
    /\ owner = s
    /\ pc = "done"
    /\ owner' = 0
    /\ IF Missing(formData, req[s].required)
       THEN Ends(s) /\ UNCHANGED submissions
       ELSE /\ submissions' =
                 Append(submissions,
                        [conversation |-> req[s].conv, formData |-> formData,
                         required |-> req[s].required])
            /\ req' = [req EXCEPT ![s].at = "save"]
    /\ UNCHANGED <<conversations, nRequests, backend>>

\* conversation.status = 'completed'; conversation.completedAt = new Date();
\* await conversation.save()
SubmitSave(s) ==
    /\ req[s].kind = "submit" /\ req[s].at = "save"
    /\ conversations' =
          [conversations EXCEPT
              ![req[s].conv].status =
                  IF req[s].status = "completed" THEN @ ELSE "completed",
              ![req[s].conv].completedAt = TRUE]
    /\ Ends(s)
    /\ UNCHANGED <<submissions, owner, nRequests, backend>>

InitConversation == Init /\ store = SchemaDefaults

NextConversation ==
    \/ \E s \in Slots, p \in Platforms : Receive(s, "start", 0, p)
    \/ \E s \in Slots : Receive(s, "whatsapp", 0, "none")
    \/ \E s \in Slots, c \in DOMAIN conversations :
          \E k \in {"message", "abandon", "submit"} : Receive(s, k, c, "none")
    \/ \E s \in Slots : StartFind(s)
    \/ \E s \in Slots : StartCreate(s)
    \/ \E s \in Slots : StartCall(s)
    \/ \E s \in Slots : StartResume(s)
    \/ \E s \in Slots, msg \in Messages : MessageFind(s, msg)
    \/ \E s \in Slots : MessageSaveUser(s)
    \/ \E s \in Slots : MessageCall(s)
    \/ \E s \in Slots : MessageResume(s)
    \/ \E s \in Slots : AbandonFind(s)
    \/ \E s \in Slots : AbandonSave(s)
    \/ \E s \in Slots, f \in FieldNames : SubmitFind(s, f)
    \/ \E s \in Slots : SubmitCall(s)
    \/ \E s \in Slots : SubmitCreate(s)
    \/ \E s \in Slots : SubmitSave(s)
    \/ GetAIConfig
    \/ CacheCheck
    \/ PrimaryCall
    \/ FallbackCall
    \/ FallbackCacheWrite
    \/ Backoff
    \/ PrimaryCacheWrite
    \/ ExtractCall

SpecConversation == InitConversation /\ [][NextConversation]_vars

----------------------------------------------------------------------------
(* What the claims speak about *)

PrimaryAnswered == sarvamResponse # NoResponse
BelowThreshold ==
    PrimaryAnswered /\ sarvamResponse.confidence < config.confidenceThreshold
AtOrAboveThreshold ==
    PrimaryAnswered /\ sarvamResponse.confidence >= config.confidenceThreshold
ConfigLoaded == config # NoConfig
ServedFromCache == pc = "done" /\ calls.primary = 0
EntryLive == responseCache[Key].life > 0
FallbackAnswers ==
    {[content |-> IF t = JsNull THEN "" ELSE t, confidence |-> 9] :
        t \in FallbackTexts}
RepeatedCall == nCalls >= 2 /\ first.key = Key

\* C1: when the fallback calls an invocation made after a primary response
\* below the threshold have all failed, the invocation does not raise and
\* returns the primary response.
C1_DegradeNotFail ==
    (Terminal /\ BelowThreshold /\ calls.fallback >= 1 /\ calls.fallbackOk = 0)
        => (pc = "done" /\ returned = sarvamResponse)

\* C2: an invocation makes at most maxRetries fallback calls, for every
\* maxRetries >= 0 the configuration accepts.
C2_BoundedRetries ==
    ConfigLoaded => 2 * calls.fallback <= config.maxRetries

\* C3: an invocation that was not served from the cache and whose primary
\* response is below the threshold has called the fallback provider at least
\* once when it returns.
C3_EscalationTrigger ==
    (pc = "done" /\ BelowThreshold) => calls.fallback >= 1

\* C4: when the primary response is at or above the threshold the fallback
\* provider is never called and the primary response is returned unmodified.
C4_NoNeedlessEscalation ==
    /\ AtOrAboveThreshold => calls.fallback = 0
    /\ (Terminal /\ AtOrAboveThreshold)
          => (pc = "done" /\ returned = sarvamResponse)

\* C5: with caching enabled, a call for the pair of an earlier call that
\* returned a computed response, made within the TTL of that return, has
\* called neither provider when it returns, and returns the same response.
C5_CacheIdempotence ==
    (pc = "done" /\ RepeatedCall /\ first.window > 0
       /\ first.config.cacheEnabled /\ ConfigLoaded /\ config.cacheEnabled)
        => (pc = "done" /\ returned = first.value
              /\ calls.primary = 0 /\ calls.fallback = 0)

\* C6: with maxRetries = N >= 1 and a primary response below the threshold,
\* when the fallback provider fails its first N calls and answers the next
\* one, processMessage returns the fallback content with confidence 0.9.
C6_RetryThenSucceed ==
    (Terminal /\ BelowThreshold /\ failFirst >= 1
       /\ config.maxRetries = 2 * failFirst)
        => (pc = "done" /\ returned \in FallbackAnswers)

\* C7: processMessage raises only when the configuration load or the primary
\* call fails.
C7_RaisesOnlyConfigOrPrimary ==
    pc = "raised"
        => thrown \in {"configCacheRead", "store", "configCacheWrite", "primary"}

\* C8: a failing cache read or write never makes processMessage raise, and a
\* failing cache write causes no further provider call: the response already
\* obtained is returned.
C8_CacheFailuresNeverBlock ==
    /\ pc = "raised"
          => thrown \notin {"configCacheRead", "configCacheWrite",
                            "responseRead", "responseWrite"}
    /\ calls.fallbackOk >= 1 => calls.fallback = failFirst + 1
    /\ (Terminal /\ calls.fallbackOk >= 1)
          => (pc = "done" /\ returned \in FallbackAnswers)

C10_NoCacheInteractionAtAll ==
    (Terminal /\ ConfigLoaded /\ ~config.cacheEnabled)
        => /\ calls.primary = 1
           /\ calls.responseReads = 0 /\ calls.responseWrites = 0
           /\ calls.configCacheReads = 0 /\ calls.configCacheWrites = 0

\* C10 as amended: with cacheEnabled false in the configuration it loaded, the
\* invocation calls the primary provider and neither reads nor writes the
\* response cache; loading the configuration has read the configuration
\* cache key once.
C10_NoResponseCacheInteraction ==
    (ConfigLoaded /\ ~config.cacheEnabled)
          => /\ calls.responseReads = 0 /\ calls.responseWrites = 0
             /\ calls.configCacheReads = 1
             /\ pc # "primary" => calls.primary = 1

\* an identical repeated call under cacheEnabled false that called the primary
\* provider again
C10_Witness ==
    /\ Terminal /\ ConfigLoaded /\ ~config.cacheEnabled
    /\ RepeatedCall /\ ~first.config.cacheEnabled
    /\ calls.primary = 1

\* C11: an invocation stores at most one response-cache entry, whatever
\* fallback calls and cache writes fail, and an invocation that raises has
\* stored none.
C11_AtMostOneCacheWrite ==
    /\ calls.responseWritten <= 1
    /\ pc = "raised" => calls.responseWritten = 0

\* an invocation whose first cache write failed and whose second one stored
\* the fallback response
C11_Witness ==
    /\ pc = "done" /\ calls.fallbackOk >= 2
    /\ calls.responseWrites >= 2 /\ calls.responseWritten = 1

\* C12: getAIConfig returns the cached copy while it is live, which is less
\* than 300 seconds after it was written; on a miss it reads the store,
\* returns the synthesized defaults when there is no record, and otherwise
\* returns the record and writes it to the config cache with a TTL of 300.
C12_ConfigLoad ==
    /\ [](configCache.life > 0
             => (configAge < 300 /\ configCache.life + configAge = 300))
    /\ [][ (pc = "getConfig" /\ configFrom' # "none")
             => /\ configCache.life > 0
                   => /\ configFrom' = "cache"
                      /\ config' = JSONParseConfig(configCache.val)
                      /\ configAge < 300
                /\ (configCache.life = 0 /\ store = NoRecord)
                   => /\ configFrom' = "defaults"
                      /\ config' = EnvDefaults
                      /\ pc' # "raised"
                /\ (configCache.life = 0 /\ store # NoRecord)
                   => /\ configFrom' = "store"
                      /\ config' = store
                      /\ configCache'.val = JSONStringifyConfig(store)
                      /\ configCache'.life = 300
          ]_vars

\* a record updated after the first call cached its predecessor, returned by
\* the second call once the cached copy had expired
C12_Witness ==
    /\ nCalls = 2 /\ nPatches = 1 /\ nTicks = 1
    /\ configFrom = "store" /\ config = store
    /\ first.config # NoConfig /\ first.config # config

\* C13: when the store read fails the invocation raises with no configuration
\* and no provider call, and the defaults are returned only when the store
\* holds no record.
C13_FailsClosed ==
    /\ (pc = "raised" /\ thrown = "store")
          => /\ config = NoConfig /\ configFrom = "none"
             /\ calls.primary = 0 /\ calls.fallback = 0
    /\ configFrom = "defaults" => store = NoRecord

\* the store read failed while a record exists
C13_Witness ==
    pc = "raised" /\ thrown = "store" /\ store # NoRecord /\ calls.primary = 0

\* C14: the AIConfig collection never holds more than one document.
C14_AtMostOneRecord == Len(collection) <= 1

\* C15: extractFormData never raises, calls the fallback provider at most
\* once, neither reads nor writes the response cache, and returns the empty
\* mapping when the configuration load or the provider call failed or the
\* content is missing or not JSON.
C15_ExtractNeverRaises ==
    op = "extractFormData"
        => /\ pc # "raised"
           /\ calls.fallback <= 1
           /\ calls.responseReads = 0 /\ calls.responseWrites = 0
           /\ (pc = "done"
                 /\ (\/ config = NoConfig
                     \/ calls.fallbackOk = 0
                     \/ enhancedResponse \in {JsNull, "", "Sorry, I cannot"}))
                 => formData = EmptyMapping

\* an extraction whose provider answered with content that is not JSON
C15_Witness ==
    /\ op = "extractFormData" /\ pc = "done" /\ calls.fallbackOk = 1
    /\ enhancedResponse = "Sorry, I cannot" /\ formData = EmptyMapping

\* C16: when the primary provider reports a score, 0 included, the primary
\* response carries exactly that score.
C16_ReportedScoreKept ==
    (PrimaryAnswered /\ reported # NoScore)
        => sarvamResponse.confidence = reported

\* C17: a response returned from a successful fallback call has confidence
\* 0.9, and with caching enabled the entry written for it parses to the
\* response returned.
C17_FallbackResponse ==
    [][ (pc \in {"fallback", "fallbackCache"} /\ pc' = "done"
           /\ retries' = retries)
          => /\ returned'.confidence = 9
             /\ config.cacheEnabled
                  => JSONParseResponse(responseCache'[Key].val) = returned'
      ]_vars

\* C18: the configuration is loaded before the cache check, the cache is
\* checked before the primary call, the primary provider is called at most
\* once, and a fallback call is made only after the primary call answered
\* below the threshold.
C18_StepOrder ==
    /\ pc \in {"cacheCheck", "primary", "fallback", "fallbackCache",
                "backoff", "primaryCache"}
          => (ConfigLoaded /\ calls.configCacheReads = 1)
    /\ calls.responseReads >= 1 => ConfigLoaded
    /\ (calls.primary >= 1 /\ config.cacheEnabled) => calls.responseReads = 1
    /\ pc = "cacheCheck" => calls.primary = 0
    /\ calls.primary <= 1
    /\ (pc = "fallback" \/ calls.fallback >= 1)
          => (calls.primary = 1 /\ BelowThreshold)

\* an invocation that went through every step and called the fallback twice
C18_Witness ==
    /\ pc = "done" /\ calls.configCacheReads = 1 /\ calls.responseReads = 1
    /\ calls.primary = 1 /\ calls.fallback >= 2

\* C19: the array the caller passed holds what it held when the call was
\* made.
C19_HistoryUnchanged == arrays.caller = given

\* a processMessage call with two turns of history that called the fallback
\* provider twice
C19_Witness ==
    /\ op = "processMessage" /\ Terminal
    /\ given # Undefined /\ Len(given) = 2 /\ calls.fallback >= 2

\* C20: every message list processMessage sent to the fallback provider is
\* the history in order, user turns as role user and ai turns as role
\* assistant, followed by the new message as role user.
C20_FallbackMessageList ==
    op = "processMessage"
        => \A i \in 1..Len(requests) :
              LET h == IF given = Undefined THEN <<>> ELSE given
              IN  /\ Len(requests[i]) = Len(h) + 1
                  /\ \A j \in 1..Len(h) :
                        /\ requests[i][j].content = h[j].content
                        /\ h[j].sender = "user" => requests[i][j].role = "user"
                        /\ h[j].sender = "ai"
                              => requests[i][j].role = "assistant"
                  /\ requests[i][Len(h) + 1] =
                        [role |-> "user", content |-> message]

\* two fallback requests for a history of a user turn and an ai turn
C20_Witness ==
    /\ op = "processMessage" /\ Len(requests) >= 2
    /\ given # Undefined /\ Len(given) = 2
    /\ given[1].sender = "user" /\ given[2].sender = "ai"

\* C22: when an invocation ends, it has waited once after each failed
\* fallback attempt but the last, never after an attempt that answered, and
\* not at all when it made no attempt.
C22_BackoffBetweenAttempts ==
    (Terminal /\ op = "processMessage")
        => /\ calls.backoffs =
                IF calls.fallback = 0 THEN 0 ELSE calls.fallback - 1
           /\ calls.backoffs <= calls.fallback - calls.fallbackOk

\* C25: an invocation that returns the primary response below the threshold
\* because no fallback attempt answered has stored no response-cache entry.
C25_DegradedNeverCached ==
    (pc = "done" /\ BelowThreshold /\ calls.fallbackOk = 0
       /\ returned = sarvamResponse)
        => calls.responseWritten = 0

\* C27: a response returned without a cache hit has a confidence at or above
\* the threshold, or is the primary response returned after at least one
\* fallback attempt and no successful one.
C27_ReturnedConfidence ==
    (pc = "done" /\ op = "processMessage" /\ calls.primary = 1)
        => \/ returned.confidence >= config.confidenceThreshold
           \/ /\ returned = sarvamResponse
              /\ calls.fallback >= 1 /\ calls.fallbackOk = 0

C24_SubmissionHasRequired ==
    \A i \in DOMAIN submissions :
       /\ submissions[i].formData # EmptyMapping
       /\ \E p \in submissions[i].formData :
             /\ p[1] = submissions[i].required
             /\ p[2] \notin {JsUndefined, JsNull, ""}

\* C26: in a list the send-message flow or the WhatsApp handler has sent to
\* the fallback provider, the new user message appears exactly once from the
\* position of its turn in the history on.
C26_NewMessageOnce ==
    (owner # 0 /\ req[owner].kind \in {"message", "whatsapp"})
        => \A i \in DOMAIN requests :
              Cardinality({j \in Len(given)..Len(requests[i]) :
                              requests[i][j] = UserEntry(message)}) = 1

\* C28: a conversation whose status is completed or abandoned never changes
\* status again.
C28_StatusMonotone ==
    [][\A i \in DOMAIN conversations :
          conversations[i].status \in {"completed", "abandoned"}
             => conversations'[i].status = conversations[i].status]_vars

\* C29: at most one conversation of the user for the scheme is active.
C29_OneActiveConversation == Cardinality(Active) <= 1

\* C30: the send-message flow calls processMessage when the stored
\* conversation has the user's turn; when the call has returned, the
\* request's save appends one ai turn with the response's content and
\* confidence directly after that turn, and when it has raised, the stored
\* conversation stays as it is.
C30_TurnsPaired ==
    [][/\ (owner = 0 /\ owner' # 0 /\ req'[owner'].kind = "message")
          => LET stored == conversations[req[owner'].conv].messages
             IN  \E j \in DOMAIN stored : stored[j] = UserTurn(message')
       /\ (owner # 0 /\ owner' = 0 /\ req[owner].kind = "message")
          => LET c == req[owner].conv
                 stored == conversations[c].messages
             IN  IF pc = "done"
                 THEN /\ stored[Len(stored)] = UserTurn(message)
                      /\ conversations'[c].messages
                           = Append(stored, AiTurn(returned))
                      /\ conversations'[c].status = conversations[c].status
                 ELSE conversations'[c] = conversations[c]]_vars

====
